---- MODULE Spec2Model ----
(***************************************************************************)
(* A model of the cahal binding layer: the typed property containers of    *)
(* property.rs (Prop, ArrayProp) driven through their untyped get/set,     *)
(* and the COM-style plug-in lifecycle of plugin_driver_interface.rs       *)
(* (create, query_interface, retain, release, initialize).                 *)
(***************************************************************************)
EXTENDS Integers, Sequences, FiniteSets, TLC

(***************************************************************************)
(* Bounds of the model.                                                    *)
(***************************************************************************)
\* payload values a caller stores are 1..MaxVal (0 is the constructed value)
MaxVal == 2
\* longest sequence an array property is constructed with (new_with)
MaxStored == 2
\* capacity, in elements, of the caller's destination buffer
MaxBuf == 3
\* length, in elements, of the longest source buffer handed to set
MaxSrc == 2
\* number of retain/release calls on a container that the history records
MaxHist == 5
\* number of objects of an object tree
MaxNodes == 4
\* how far from 0, from the ends of the i32 range and from 2^16 the status
\* codes handed to the conversions are
MaxDelta == 8
\* number of threads that call retain and release on one container
MaxThreads == 2
\* number of retain and release calls these threads make in all
MaxCalls == 4

(***************************************************************************)
(* Status codes (coreaudio_sys four-character codes) and pointers.         *)
(***************************************************************************)
\* 'nope'
kAudioHardwareIllegalOperationError == 1852797029
\* '!obj'
kAudioHardwareBadObjectError == 560947818
\* '!siz'
kAudioHardwareBadPropertySizeError == 561211770
\* 'what'
kAudioHardwareUnspecifiedError == 2003329396

HW_ILLEGAL_OPERATION_ERR == kAudioHardwareIllegalOperationError
HW_BAD_OBJECT_ERR == kAudioHardwareBadObjectError
HW_BAD_PROPERTY_SIZE_ERR == kAudioHardwareBadPropertySizeError
HW_UNSPECIFIED_ERR == kAudioHardwareUnspecifiedError

\* OSStatus Ok(()) seen as its raw code
StatusOk == 0

\* the null pointer; every other address is a positive integer
NULL == 0
\* address of the caller's buffer (aligned for every element type used here)
BufBase == 4 * 4
\* an address inside the caller's buffer that is not a multiple of the alignment
BufOdd == BufBase + 2

\* a memory cell the callee has not written: <<>>; a written cell: <<value>>
Untouched == <<>>

Min(a, b) == IF a <= b THEN a ELSE b

\* an Option: None, or Some(x)
None == <<>>
Some(x) == <<x>>

\* usize -> u32 try_into succeeds: n < 2^32, computed on 16-bit halves
FitsU32(n) == (n \div 65536) < 65536

(***************************************************************************)
(* The property types.  Four instances cover the const generics:           *)
(*   Prop<u32, SEL, true>, Prop<u32, SEL, false>,                          *)
(*   ArrayProp<u32, SEL, true>, ArrayProp<u32, SEL, false>.                *)
(***************************************************************************)
ScalarProps == {"prop_mut", "prop_const"}
ArrayProps == {"array_mut", "array_const"}
PropIds == ScalarProps \cup ArrayProps

MUTABLE_PROP(p) == p \in {"prop_mut", "array_mut"}

\* size_of::<u32>()
SIZE == 4
ITEM_SIZE == 4
\* align_of::<u32>()
ALIGN == 4

is_mut_always(p) == TRUE
is_mut(p) == MUTABLE_PROP(p)

is_null(ptr) == ptr = NULL

is_aligned_always(ptr) == TRUE
is_aligned(ptr) == ptr % ALIGN = 0

\* a size check that accepts every whole number of elements
size_is_multiple(data_size, want) == data_size >= want /\ data_size % want = 0
\* the size check of set: data_size == Self::SIZE / Self::ITEM_SIZE
size_matches(data_size, want) == data_size = want

\* the capacity check of get: out_alloc_size >= Self::SIZE / Self::ITEM_SIZE
capacity_any(out_alloc_size, want) == TRUE
capacity_ok(out_alloc_size, want) == out_alloc_size >= want

\* byte_size(): Self::SIZE for a scalar, ITEM_SIZE * len for an array
byte_size(p, payload) ==
    IF p \in ScalarProps THEN SIZE ELSE ITEM_SIZE * Len(payload)

\* the untouched destination buffer of a get call
FreshBuf == [i \in 1..MaxBuf |-> Untouched]

\* result of a call on a property: the raw status, whether it panicked, the
\* payload afterwards, the caller's buffers afterwards, and whether the data
\* pointer was dereferenced
Outcome(ret, panicked, self, dst, outLen, deref) ==
    [ret |-> ret, panicked |-> panicked, self |-> self,
     dst |-> dst, outLen |-> outLen, deref |-> deref]

Err(code, self) == Outcome(code, FALSE, self, FreshBuf, Untouched, FALSE)

(***************************************************************************)
(* Prop::set and Prop::get                                                 *)
(***************************************************************************)
Prop_set_no_store(p, self, data, data_size, mem) ==
    IF is_null(data) THEN Err(HW_ILLEGAL_OPERATION_ERR, self)
    ELSE IF ~is_aligned(data) THEN Err(HW_BAD_OBJECT_ERR, self)
    ELSE IF ~size_matches(data_size, SIZE) THEN Err(HW_BAD_PROPERTY_SIZE_ERR, self)
    ELSE IF ~is_mut(p) THEN Err(HW_UNSPECIFIED_ERR, self)
    ELSE Outcome(StatusOk, FALSE, self, FreshBuf, Untouched, TRUE)

Prop_set(p, self, data, data_size, mem) ==
    IF is_null(data) THEN Err(HW_ILLEGAL_OPERATION_ERR, self)
    ELSE IF ~is_aligned(data) THEN Err(HW_BAD_OBJECT_ERR, self)
    ELSE IF ~size_matches(data_size, SIZE) THEN Err(HW_BAD_PROPERTY_SIZE_ERR, self)
    ELSE IF ~is_mut(p) THEN Err(HW_UNSPECIFIED_ERR, self)
    ELSE Outcome(StatusOk, FALSE, mem[1], FreshBuf, Untouched, TRUE)

Prop_get(p, self, out_alloc_size, data_out, len_null) ==
    IF is_null(data_out) \/ len_null THEN Err(HW_ILLEGAL_OPERATION_ERR, self)
    ELSE IF ~capacity_ok(out_alloc_size, SIZE) THEN Err(HW_BAD_PROPERTY_SIZE_ERR, self)
    ELSE IF ~is_aligned(data_out) THEN Err(HW_BAD_OBJECT_ERR, self)
    ELSE \* ptr::write(data_out, self.0.clone()); data_len_out is not written
         Outcome(StatusOk, FALSE, self,
                 [FreshBuf EXCEPT ![1] = <<self>>], Untouched, TRUE)

(***************************************************************************)
(* ArrayProp::set and ArrayProp::get                                       *)
(***************************************************************************)
ArrayProp_set_clear_first(p, self, data, data_size, mem) ==
    IF is_null(data) THEN Err(HW_ILLEGAL_OPERATION_ERR, self)
    ELSE IF ~size_matches(data_size, ITEM_SIZE) THEN Err(HW_BAD_PROPERTY_SIZE_ERR, self)
    ELSE IF ~is_aligned(data) THEN Err(HW_BAD_OBJECT_ERR, self)
    ELSE IF ~is_mut(p) THEN Err(HW_UNSPECIFIED_ERR, <<>>)
    ELSE Outcome(StatusOk, FALSE, SubSeq(mem, 1, data_size \div ITEM_SIZE),
                 FreshBuf, Untouched, TRUE)

ArrayProp_set(p, self, data, data_size, mem) ==
    IF is_null(data) THEN Err(HW_ILLEGAL_OPERATION_ERR, self)
    ELSE IF ~size_matches(data_size, ITEM_SIZE) THEN Err(HW_BAD_PROPERTY_SIZE_ERR, self)
    ELSE IF ~is_aligned(data) THEN Err(HW_BAD_OBJECT_ERR, self)
    ELSE IF ~is_mut(p) THEN Err(HW_UNSPECIFIED_ERR, self)
    ELSE \* slice::from_raw_parts(data, data_size / ITEM_SIZE); clear; extend
         Outcome(StatusOk, FALSE, SubSeq(mem, 1, data_size \div ITEM_SIZE),
                 FreshBuf, Untouched, TRUE)

ArrayProp_get(p, self, out_alloc_size, data_out, len_null) ==
    IF is_null(data_out) \/ len_null THEN Err(HW_ILLEGAL_OPERATION_ERR, self)
    ELSE IF ~capacity_ok(out_alloc_size, ITEM_SIZE) THEN Err(HW_BAD_PROPERTY_SIZE_ERR, self)
    ELSE IF ~is_aligned(data_out) THEN Err(HW_BAD_OBJECT_ERR, self)
    ELSE LET s_len == out_alloc_size \div ITEM_SIZE
             to_copy == Min(s_len, Len(self))
             slice == SubSeq(self, 1, to_copy)
             written == [i \in 1..MaxBuf |->
                            IF i <= Len(slice) THEN <<slice[i]>> ELSE Untouched]
         IN  IF s_len # Len(slice)
             THEN \* s.copy_from_slice(slice) panics on a length mismatch,
                  \* before it copies anything
                  Outcome(StatusOk, TRUE, self, FreshBuf, Untouched, FALSE)
             ELSE IF ~FitsU32(to_copy * ITEM_SIZE)
             THEN Outcome(HW_BAD_PROPERTY_SIZE_ERR, FALSE, self, written, Untouched, TRUE)
             ELSE Outcome(StatusOk, FALSE, self, written,
                          <<to_copy * ITEM_SIZE>>, TRUE)

(***************************************************************************)
(* UUIDs.  A u128 is kept as its sixteen base-256 digits, digit i having   *)
(* weight 256^i, so from_le_bytes and to_le_bytes are computed digit by    *)
(* digit.  A CFUUID object is identified by its sixteen bytes.             *)
(***************************************************************************)
uuid_u128(uuid) == [i \in 0..15 |-> uuid[i + 1]]

to_be_bytes(n) == [i \in 1..16 |-> n[16 - i]]
to_le_bytes(n) == [i \in 1..16 |-> n[i - 1]]

CFUUIDGetConstantUUIDWithBytes(bytes) == [bytes |-> bytes]
CFUUIDCreateFromUUIDBytes(bytes) == [bytes |-> bytes]
CFEqual(a, b) == IF a.bytes = b.bytes THEN 1 ELSE 0

StaticUUID_get(UUID) == CFUUIDGetConstantUUIDWithBytes(to_le_bytes(UUID))

I_UNKNOWN_INTERFACE ==
    uuid_u128(<<0, 0, 0, 0, 0, 0, 0, 0, 192, 0, 0, 0, 0, 0, 0, 70>>)
AUDIO_SERVER_DRIVER_PLUGIN_INTERFACE ==
    uuid_u128(<<238, 165, 119, 61, 204, 67, 73, 241,
                142, 0, 143, 150, 231, 210, 59, 23>>)
AUDIO_SERVER_DRIVER_PLUGIN_TYPE ==
    uuid_u128(<<68, 58, 186, 184, 231, 179, 73, 26,
                185, 133, 190, 185, 24, 112, 48, 219>>)

\* E_NOINTERFACE: 0x80000004u32 as i32
E_NOINTERFACE == 4 - 2147483647 - 1

(***************************************************************************)
(* The reference count is an AtomicU32.  The tool's integers are 32-bit    *)
(* signed, so a u32 is kept as the i32 with the same bits: 0..2^31-1 are   *)
(* themselves, 2^31..2^32-1 are the negative numbers.                      *)
(***************************************************************************)
I32_MAX == 2147483647
I32_MIN == 0 - I32_MAX - 1
\* the bits of u32::MAX
U32_MAX_BITS == 0 - 1

\* fetch_add(1): the stored value wraps
fetch_add_load(v) == v
fetch_add(v) == IF v = I32_MAX THEN I32_MIN ELSE v + 1

\* u32::saturating_sub(1)
wrapping_sub(v) ==
    IF v = I32_MIN THEN I32_MAX ELSE v - 1

saturating_sub(v) ==
    IF v = 0 THEN 0 ELSE IF v = I32_MIN THEN I32_MAX ELSE v - 1

\* the implementation's create hook (TestPlugin { _value: 0 })
Implementation_create == [_value |-> 0]

(***************************************************************************)
(* Status codes as typed results (os_err).  A u32 is kept here as its two  *)
(* 16-bit halves <<high, low>>, so that the casts between i32 and u32 are  *)
(* computed on the bits.                                                   *)
(***************************************************************************)
Half == 256 * 256
HalfTop == Half \div 2

\* value as u32
as_u32(value) ==
    IF value >= 0 THEN <<value \div Half, value % Half>>
    ELSE LET low31 == (value + I32_MAX) + 1
         IN  <<(low31 \div Half) + HalfTop, low31 % Half>>

\* a cast that keeps the value when it fits and the largest i32 otherwise
as_i32_saturating(n) ==
    IF n[1] < HalfTop THEN n[1] * Half + n[2] ELSE I32_MAX
\* n as i32
as_i32(n) ==
    IF n[1] < HalfTop THEN n[1] * Half + n[2]
    ELSE (((n[1] - HalfTop) * Half + n[2]) - I32_MAX) - 1

NonZeroU32_new(n) == IF n = <<0, 0>> THEN None ELSE Some(n)
NonZeroU32_get(nz) == nz

\* struct OSStatusError(NonZeroU32)
OSStatusError(val) == <<val>>
\* const_nonzero_u32!(e), e a nonzero constant
const_nonzero_u32(e) == as_u32(e)

\* OSStatus = Result<(), OSStatusError>
ResultOk == [tag |-> "Ok"]
ResultErr(e) == [tag |-> "Err", err |-> e]

result_from_err_code(value) ==
    LET val == NonZeroU32_new(as_u32(value))
    IN  IF val # None THEN ResultErr(OSStatusError(val[1])) ELSE ResultOk

\* result_to_raw: Ok(()) is 0, Err(n) is n.0.get() as i32
result_to_raw(value) ==
    IF value.tag = "Ok" THEN 0 ELSE as_i32(NonZeroU32_get(value.err[1]))

(***************************************************************************)
(* The wrappers of the host's callbacks (PluginHostInterface).  The host   *)
(* table is the set of its fields that hold a function pointer.  A usize   *)
(* is kept as <<high, low>>, its value being high * 2^32 + low.            *)
(***************************************************************************)
HostFields ==
    {"PropertiesChanged", "CopyFromStorage", "WriteToStorage",
     "DeleteFromStorage", "RequestDeviceConfigurationChange"}

\* len as u32: the low 32 bits
usize_as_u32(len) == Some(len[2])
\* u32::try_from(len)
usize_try_into_u32(len) == IF len[1] = 0 THEN Some(len[2]) ELSE None

\* what a wrapper gives back: its result and the host functions it invoked
HostOutcome(res, invoked) == [res |-> res, invoked |-> invoked]

\* let Some(f) = ptr::read(self.inner).Field else { return Err(..) };
\* result_from_raw((f)(self.inner, ...)): the conversion of lib.rs:21
host_callback(table, field, answer) ==
    IF field \notin table
    THEN HostOutcome(ResultErr(OSStatusError(const_nonzero_u32(
                         kAudioHardwareIllegalOperationError))), <<>>)
    ELSE HostOutcome(result_from_err_code(answer), <<field>>)

properties_changed(table, len, answer) ==
    IF "PropertiesChanged" \notin table
    THEN host_callback(table, "PropertiesChanged", answer)
    ELSE IF usize_try_into_u32(len) = None
    THEN \* .try_into().replace_err(HW_BAD_PROPERTY_SIZE_ERR)?
         HostOutcome(ResultErr(OSStatusError(const_nonzero_u32(
                         kAudioHardwareBadPropertySizeError))), <<>>)
    ELSE host_callback(table, "PropertiesChanged", answer)

copy_from_storage(table, answer) ==
    host_callback(table, "CopyFromStorage", answer)
write_to_storage(table, answer) ==
    host_callback(table, "WriteToStorage", answer)
delete_from_storage(table, answer) ==
    host_callback(table, "DeleteFromStorage", answer)
request_device_configuration_change(table, answer) ==
    host_callback(table, "RequestDeviceConfigurationChange", answer)

\* a wrapper made without looking at the pointer
PluginHostInterface_new_unchecked(inner) == [some |-> TRUE, inner |-> inner]

\* PluginHostInterface::new: None for a null pointer
PluginHostInterface_new(inner) ==
    IF inner = NULL THEN [some |-> FALSE, inner |-> NULL]
    ELSE [some |-> TRUE, inner |-> inner]

(***************************************************************************)
(* Selectors and object trees (audio_object.rs).  An Option is None, the   *)
(* empty tuple, or Some(x), the tuple <<x>>.  A PropertySelector is the    *)
(* tuple struct around a u32.  A reference to a property is the pair of    *)
(* the object that owns it and the selector of the slot.                   *)
(***************************************************************************)
\* impl From<u32> for PropertySelector, impl From<PropertySelector> for u32
PropertySelector_from(value) == <<value>>
u32_from(sel) == sel[1]

\* the selectors of the crate's own test
SEL1 == 10
SEL2 == 12
\* a selector no object of a tree has
SelAbsent == SEL1 + 1

TreeSelectors == {SEL1, SEL2}

\* the selectors of AudioObjectBase (coreaudio_sys four-character codes)
\* 'bcls'
kAudioObjectPropertyBaseClass == 1650682995
\* 'clas'
kAudioObjectPropertyClass == 1668047219
\* 'stdv'
kAudioObjectPropertyOwner == 1937007734
\* 'lnam'
kAudioObjectPropertyName == 1819173229
\* 'ownd'
kAudioObjectPropertyOwnedObjects == 1870098020

\* the fields of struct AudioObjectBase
BaseFields == {"base_class", "class", "owner", "owned_objects", "name"}

\* the SEL parameter of the type of each property: the four instances of
\* Prop and ArrayProp, and the fields of AudioObjectBase as declared
SEL(p) ==
    CASE p = "prop_mut" -> SEL1
      [] p = "prop_const" -> SEL2
      [] p = "array_mut" -> SEL1
      [] p = "array_const" -> SEL2
      [] p = "base_class" -> kAudioObjectPropertyBaseClass
      [] p = "class" -> kAudioObjectPropertyClass
      [] p = "owner" -> kAudioObjectPropertyOwner
      [] p = "owned_objects" -> kAudioObjectPropertyOwnedObjects
      [] p = "name" -> kAudioObjectPropertyName

\* RawProperty::selector of Prop and of ArrayProp: SEL.into()
selector(p, self) == PropertySelector_from(SEL(p))

\* AudioObjectBase::new: the payload of each field (name is its CFString)
AudioObjectBase_new(base_class, class, owner, name) ==
    [base_class |-> base_class, class |-> class, owner |-> owner,
     owned_objects |-> <<>>, name |-> name]

\* the match with the arms of name and owner exchanged
AudioObjectBase_get_object_property_swapped(sel) ==
    CASE u32_from(sel) = kAudioObjectPropertyBaseClass -> Some("base_class")
      [] u32_from(sel) = kAudioObjectPropertyClass -> Some("class")
      [] u32_from(sel) = kAudioObjectPropertyName -> Some("owner")
      [] u32_from(sel) = kAudioObjectPropertyOwnedObjects -> Some("owned_objects")
      [] u32_from(sel) = kAudioObjectPropertyOwner -> Some("name")
      [] OTHER -> None

\* impl HasProperties for AudioObjectBase: get_object_property and
\* get_object_property_mut have the same arms
AudioObjectBase_get_object_property(sel) ==
    CASE u32_from(sel) = kAudioObjectPropertyBaseClass -> Some("base_class")
      [] u32_from(sel) = kAudioObjectPropertyClass -> Some("class")
      [] u32_from(sel) = kAudioObjectPropertyName -> Some("name")
      [] u32_from(sel) = kAudioObjectPropertyOwnedObjects -> Some("owned_objects")
      [] u32_from(sel) = kAudioObjectPropertyOwner -> Some("owner")
      [] OTHER -> None
QuerySelectors == TreeSelectors \cup {SelAbsent}

\* the sub-objects of obj in the order subobjects() lists them: the objects
\* whose owner is obj, in ascending order
subobjects(parent, obj) ==
    LET kids == {m \in DOMAIN parent : parent[m] = obj}
    IN  [i \in 1..Cardinality(kids) |->
            CHOOSE m \in kids : Cardinality({x \in kids : x < m}) = i - 1]

\* an object tree: object 1 is the root, every other object is owned by an
\* object made before it; slots[obj] are the selectors of obj's own slots.
\* subobjects_mut and slots_mut are what subobjects_mut() and
\* get_object_property_mut answer: here the same as the shared accessors
AudioObjectTree(parent, slots) ==
    [parent |-> parent,
     subobjects |-> [obj \in DOMAIN parent |-> subobjects(parent, obj)],
     slots |-> slots,
     subobjects_mut |-> [obj \in DOMAIN parent |-> subobjects(parent, obj)],
     slots_mut |-> slots]

\* HasProperties::get_object_property of an object of the tree
get_object_property(t, obj, sel) ==
    IF u32_from(sel) \in t.slots[obj] THEN Some(<<obj, u32_from(sel)>>) ELSE None

\* HasProperties::get_object_property_mut of an object of the tree
get_object_property_mut(t, obj, sel) ==
    IF u32_from(sel) \in t.slots_mut[obj]
    THEN Some(<<obj, u32_from(sel)>>) ELSE None

RECURSIVE get_property(_, _, _)

\* the loop of get_property looking at the sub-objects themselves only
get_property_loop_shallow(t, obj, sel, i) ==
    LET found == {j \in i..Len(t.subobjects[obj]) :
                     get_object_property(t, t.subobjects[obj][j], sel) # None}
    IN  IF found = {} THEN None
        ELSE get_object_property(t, t.subobjects[obj][CHOOSE j \in found :
                                     \A k \in found : j <= k], sel)

\* the loop of get_property looking at every sub-object's own slots before
\* it descends into any of them
get_property_loop_level(t, obj, sel, i) ==
    LET own == get_property_loop_shallow(t, obj, sel, i)
        below == {j \in i..Len(t.subobjects[obj]) :
                     get_property(t, t.subobjects[obj][j], sel) # None}
    IN  IF own # None THEN own
        ELSE IF below = {} THEN None
        ELSE get_property(t, t.subobjects[obj][CHOOSE j \in below :
                              \A k \in below : j <= k], sel)

RECURSIVE get_property_loop(_, _, _, _)
\* for obj in self.subobjects(): the iterations from the i-th on
get_property_loop(t, obj, sel, i) ==
    IF i > Len(t.subobjects[obj]) THEN None
    ELSE LET prop == get_property(t, t.subobjects[obj][i], sel)
         IN  IF prop # None THEN prop
             ELSE get_property_loop(t, obj, sel, i + 1)

\* AudioObject::get_property
get_property(t, obj, sel) ==
    LET prop == get_object_property(t, obj, sel)
    IN  IF prop # None THEN prop ELSE get_property_loop(t, obj, sel, 1)

RECURSIVE get_property_mut(_, _, _)
RECURSIVE get_property_mut_loop_last(_, _, _, _)
\* the loop of get_property_mut keeping the last sub-object that finds the
\* selector instead of returning from the first
get_property_mut_loop_last(t, obj, sel, i) ==
    IF i > Len(t.subobjects_mut[obj]) THEN None
    ELSE LET rest == get_property_mut_loop_last(t, obj, sel, i + 1)
         IN  IF rest # None THEN rest
             ELSE get_property_mut(t, t.subobjects_mut[obj][i], sel)

RECURSIVE get_property_mut_loop(_, _, _, _)
\* for obj in self.subobjects_mut(): the iterations from the i-th on
get_property_mut_loop(t, obj, sel, i) ==
    IF i > Len(t.subobjects_mut[obj]) THEN None
    ELSE LET prop == get_property_mut(t, t.subobjects_mut[obj][i], sel)
         IN  IF prop # None THEN prop
             ELSE get_property_mut_loop(t, obj, sel, i + 1)

\* AudioObject::get_property_mut
get_property_mut(t, obj, sel) ==
    LET prop == get_object_property_mut(t, obj, sel)
    IN  IF prop # None THEN prop ELSE get_property_mut_loop(t, obj, sel, 1)

(***************************************************************************)
(* The byte size of an array property.  The element count is a usize, kept *)
(* as <<bits above the low 32, low 32 bits>>; a u32 is two 16-bit halves.  *)
(***************************************************************************)
\* `self.len() as u32`: the cast keeps the low 32 bits of the count
len_as_u32(len) == as_u32(len[2])

\* item_size * n on u32: the wrapped product as halves, and whether the
\* product overflowed
u32_mul(item_size, n) ==
    LET low == item_size * n[2]
        high == item_size * n[1] + low \div Half
    IN  [value |-> <<high % Half, low % Half>>, overflow |-> high >= Half]

\* an overflowing multiplication panics in a build with overflow checks (a
\* debug build) and wraps in a build without them (a release build)
MulOverflow(item_size, len) ==
    IF u32_mul(item_size, len_as_u32(len)).overflow
    THEN {"panic", "wrap"} ELSE {"none"}

\* byte_size returns a u32: it has no way to return an error (err is None)
ArrayProp_byte_size(item_size, len, overflow) ==
    [ret |-> IF overflow = "panic" THEN <<0, 0>>
             ELSE u32_mul(item_size, len_as_u32(len)).value,
     err |-> None,
     panicked |-> overflow = "panic"]

(***************************************************************************)
(* State.                                                                  *)
(***************************************************************************)
VARIABLES
    props,      \* payload of each property: a value, or a sequence of values
    pcall,      \* the last call on a property: its arguments and its outcome
    logger,     \* TRUE once the process-wide logger is installed
    aborted,    \* TRUE once a panic crossed an extern "C" entry point
    heap,       \* the containers allocated by create, by address 1..Len(heap)
    hist,       \* retain/release calls made on containers, in order
    dcall,      \* the last call of a driver entry point and its outcome
    tree,       \* the object tree that property queries are made on
    tcall,      \* the last query on the tree and what it returned
    conv,       \* the last conversion of a status code and its result
    hcall,      \* the last call of a host-callback wrapper and its outcome
    bcall,      \* the last call of byte_size on an array and its outcome
    rc,         \* the refcount of the container that threads share
    thr,        \* each thread's position in its retain or release call
    run         \* what the threads have done to the shared refcount so far

vars == <<props, pcall, logger, aborted, heap, hist, dcall, tree, tcall,
          conv, hcall, bcall, rc, thr, run>>
propVars == <<props, pcall>>
driverVars == <<logger, aborted, heap, hist, dcall>>
treeVars == <<tree, tcall>>
concVars == <<rc, thr, run>>
libVars == <<tree, tcall, conv, hcall, bcall, concVars>>

Values == 1..MaxVal

\* the sequence of len values start, start+1, ..., wrapping within Values
Ramp(start, len) == [i \in 1..len |-> ((start + i - 2) % MaxVal) + 1]

\* the sequences an array property is constructed with, and the contents of
\* the source buffers handed to set
Ramps(n) == {Ramp(v, k) : v \in Values, k \in 0..n}

\* the sequence the constant array is constructed with
ConstSeq == Ramp(1, MaxStored)

\* a source buffer of data_size bytes holds this many elements
SrcLen(data_size) == (data_size + ITEM_SIZE - 1) \div ITEM_SIZE

Pointers == {NULL, BufBase, BufOdd}

\* sizes handed to set, and the source buffer of that many bytes
SetSizes == {0, ITEM_SIZE - 1} \cup {k * ITEM_SIZE : k \in 1..MaxSrc}
\* capacities handed to get
GetSizes == {0, ITEM_SIZE - 1} \cup {k * ITEM_SIZE : k \in 1..MaxBuf}

\* sel: the selector a lookup was made with; selector, is_mut: what the
\* property answers to selector() and is_mut() right after the call
NoCall ==
    [op |-> "none", prop |-> "prop_mut", ptr |-> NULL, size |-> 0,
     len_null |-> FALSE, mem |-> <<>>, ret |-> StatusOk, panicked |-> FALSE,
     dst |-> FreshBuf, outLen |-> Untouched, deref |-> FALSE,
     sel |-> None, selector |-> None, is_mut |-> FALSE]

Called(op, p, ptr, size, len_null, mem, r) ==
    [op |-> op, prop |-> p, ptr |-> ptr, size |-> size, len_null |-> len_null,
     mem |-> mem, ret |-> r.ret, panicked |-> r.panicked,
     dst |-> r.dst, outLen |-> r.outLen, deref |-> r.deref,
     sel |-> None, selector |-> Some(selector(p, r.self)), is_mut |-> is_mut(p)]

\* a lookup on an AudioObjectBase with sel, and the property it found
Looked(sel, found, base) ==
    [NoCall EXCEPT
        !.op = "get_object_property",
        !.prop = IF found = None THEN "none" ELSE found[1],
        !.sel = Some(sel),
        !.selector = IF found = None THEN None
                     ELSE Some(selector(found[1], base[found[1]])),
        !.is_mut = IF found = None THEN FALSE ELSE is_mut(found[1])]

NoDriverCall ==
    [op |-> "none", driver |-> NULL, uuid |-> <<>>, out_null |-> FALSE,
     host |-> NULL, ret |-> 0, panicked |-> FALSE, out |-> Untouched,
     hook |-> 0, calls |-> <<>>]

NoTreeCall == [op |-> "none", obj |-> 1, sel |-> PropertySelector_from(0),
               ret |-> None]

NoConversion == [op |-> "none", arg |-> 0, res |-> 0]

NoHostCall == [op |-> "none", table |-> {}, len |-> <<0, 0>>, answer |-> 0,
               res |-> ResultOk, invoked |-> <<>>]

NoByteSize == [op |-> "none", item_size |-> ITEM_SIZE, len |-> <<0, 0>>,
               ret |-> <<0, 0>>, err |-> None, panicked |-> FALSE]

Threads == 1..MaxThreads

\* a thread between two calls; in a release, pc is "cas" and prev is the
\* count the thread read last
Idle == [pc |-> "idle", prev |-> 0]

\* initial: the count when the threads start; retains, releases: the calls
\* that have returned; reached_zero, exceeded: the count was 0 at some
\* moment, a retain took it past u32::MAX; retried: a release had to retry
Started(initial) ==
    [initial |-> initial, retains |-> 0, releases |-> 0,
     reached_zero |-> (initial = 0), exceeded |-> FALSE, retried |-> FALSE]

Init ==
    /\ props \in {[p \in PropIds |->
                     CASE p = "prop_mut" -> 0
                       [] p = "prop_const" -> 0
                       [] p = "array_mut" -> s
                       [] p = "array_const" -> ConstSeq] : s \in Ramps(MaxStored)}
    /\ pcall = NoCall
    /\ logger = FALSE
    /\ aborted = FALSE
    /\ heap = <<>>
    /\ hist = <<>>
    /\ dcall = NoDriverCall
    /\ tree = AudioObjectTree(<<0>>, <<{}>>)
    /\ tcall = NoTreeCall
    /\ conv = NoConversion
    /\ hcall = NoHostCall
    /\ bcall = NoByteSize
    /\ rc = 1
    /\ thr = [t \in Threads |-> Idle]
    /\ run = Started(1)

\* the state in which the library functions that keep no state are called
InitLib == Init /\ props["array_mut"] = ConstSeq

(***************************************************************************)
(* Calls on properties.                                                    *)
(***************************************************************************)
ScalarSet ==
    \E p \in ScalarProps, data \in Pointers, data_size \in SetSizes :
      \E mem \in {Ramp(v, SrcLen(data_size)) : v \in Values} :
        LET r == Prop_set(p, props[p], data, data_size, mem)
        IN  /\ props' = [props EXCEPT ![p] = r.self]
            /\ pcall' = Called("set", p, data, data_size, FALSE, mem, r)
            /\ UNCHANGED <<driverVars, libVars>>

ScalarGet ==
    \E p \in ScalarProps, data_out \in Pointers, cap \in GetSizes,
       len_null \in BOOLEAN :
        LET r == Prop_get(p, props[p], cap, data_out, len_null)
        IN  /\ props' = [props EXCEPT ![p] = r.self]
            /\ pcall' = Called("get", p, data_out, cap, len_null, <<>>, r)
            /\ UNCHANGED <<driverVars, libVars>>

ArraySet ==
    \E p \in ArrayProps, data \in Pointers, data_size \in SetSizes :
      \E mem \in {Ramp(v, SrcLen(data_size)) : v \in Values} :
        LET r == ArrayProp_set(p, props[p], data, data_size, mem)
        IN  /\ props' = [props EXCEPT ![p] = r.self]
            /\ pcall' = Called("set", p, data, data_size, FALSE, mem, r)
            /\ UNCHANGED <<driverVars, libVars>>

ArrayGet ==
    \E p \in ArrayProps, data_out \in Pointers, cap \in GetSizes,
       len_null \in BOOLEAN :
        LET r == ArrayProp_get(p, props[p], cap, data_out, len_null)
        IN  /\ props' = [props EXCEPT ![p] = r.self]
            /\ pcall' = Called("get", p, data_out, cap, len_null, <<>>, r)
            /\ UNCHANGED <<driverVars, libVars>>

\* the selectors a lookup on an AudioObjectBase is made with
BaseSelectors ==
    {kAudioObjectPropertyBaseClass, kAudioObjectPropertyClass,
     kAudioObjectPropertyOwner, kAudioObjectPropertyOwnedObjects,
     kAudioObjectPropertyName}

\* get_object_property on an AudioObjectBase, then selector() and is_mut()
\* on the &dyn RawProperty it returned
BaseGetObjectProperty ==
    \E sel \in BaseSelectors \cup TreeSelectors, value \in {0, MaxVal} :
        LET base == AudioObjectBase_new(value, value, value, value)
            found == AudioObjectBase_get_object_property(
                         PropertySelector_from(sel))
        IN  /\ pcall' = Looked(PropertySelector_from(sel), found, base)
            /\ UNCHANGED <<props, driverVars, libVars>>

NextProp ==
    ScalarSet \/ ScalarGet \/ ArraySet \/ ArrayGet \/ BaseGetObjectProperty

SpecProp == Init /\ [][NextProp]_vars

(***************************************************************************)
(* The driver entry points.  A panic inside an extern "C" entry point      *)
(* aborts the process: no entry point runs afterwards.                     *)
(***************************************************************************)
ZeroUUID == [i \in 1..16 |-> 0]
Reversed(bytes) == [i \in 1..16 |-> bytes[17 - i]]

\* the published UUIDs, byte by byte in the order they are written
\* 00000000-0000-0000-C000-000000000046
UnknownInterfaceId == <<0, 0, 0, 0, 0, 0, 0, 0, 192, 0, 0, 0, 0, 0, 0, 70>>
\* EEA5773D-CC43-49F1-8E00-8F96E7D23B17
DriverInterfaceId ==
    <<238, 165, 119, 61, 204, 67, 73, 241, 142, 0, 143, 150, 231, 210, 59, 23>>
\* 443ABAB8-E7B3-491A-B985-BEB9187030DB
DriverTypeId ==
    <<68, 58, 186, 184, 231, 179, 73, 26, 185, 133, 190, 185, 24, 112, 48, 219>>

\* the UUIDs a host asks for: the published ones, each byte-reversed, one
\* that differs from the type id in its last byte, and the all-zero UUID
RequestedUUIDs ==
    {UnknownInterfaceId, DriverInterfaceId, DriverTypeId,
     Reversed(UnknownInterfaceId), Reversed(DriverInterfaceId),
     Reversed(DriverTypeId),
     [DriverTypeId EXCEPT ![16] = 218],
     ZeroUUID}

\* the driver pointers a host passes: null, or a container create returned
DriverRefs == {NULL} \cup (1..Len(heap))

\* the host table pointer passed to initialize
HostRef == BufBase
\* what the driver's init hook answers
InitResults ==
    {ResultOk,
     ResultErr(OSStatusError(const_nonzero_u32(kAudioHardwareUnspecifiedError))),
     ResultErr(OSStatusError(const_nonzero_u32(kAudioHardwareIllegalOperationError)))}

\* calls: the hooks of the implementation the entry point called, in order
DriverCalled(op, driver, uuid, out_null, host, ret, panicked, out, calls) ==
    [op |-> op, driver |-> driver, uuid |-> uuid, out_null |-> out_null,
     host |-> host, ret |-> ret, panicked |-> panicked, out |-> out,
     hook |-> Len(calls), calls |-> calls]

Create ==
    \E requested_uuid \in RequestedUUIDs :
        /\ ~aborted
        /\ IF logger
           THEN \* logger.init() fails: the logger is already set; panic
                /\ aborted' = TRUE
                /\ dcall' = DriverCalled("create", NULL, requested_uuid, FALSE,
                                         NULL, NULL, TRUE, Untouched, <<>>)
                /\ UNCHANGED <<logger, heap, hist>>
           ELSE /\ logger' = TRUE
                /\ IF CFEqual(CFUUIDCreateFromUUIDBytes(requested_uuid),
                              StaticUUID_get(AUDIO_SERVER_DRIVER_PLUGIN_TYPE)) = 1
                   THEN /\ heap' = Append(heap,
                                      [implementation |-> "IMPLEMENTATION",
                                       refcount |-> 1,
                                       state |-> Implementation_create,
                                       allocated |-> TRUE])
                        /\ dcall' = DriverCalled("create", NULL, requested_uuid,
                                        FALSE, NULL, Len(heap) + 1, FALSE,
                                        Untouched, <<[hook |-> "create"]>>)
                   ELSE /\ heap' = heap
                        /\ dcall' = DriverCalled("create", NULL, requested_uuid,
                                        FALSE, NULL, NULL, FALSE, Untouched, <<>>)
                /\ UNCHANGED <<aborted, hist>>
        /\ UNCHANGED <<propVars, libVars>>

query_interface_match_first(containers, driver, in_uuid, out_null) ==
    LET requested_uuid == CFUUIDCreateFromUUIDBytes(in_uuid)
        matched ==
            \/ CFEqual(requested_uuid,
                       StaticUUID_get(AUDIO_SERVER_DRIVER_PLUGIN_INTERFACE)) = 1
            \/ CFEqual(requested_uuid,
                       StaticUUID_get(I_UNKNOWN_INTERFACE)) = 1
    IN  IF ~matched
        THEN [ret |-> E_NOINTERFACE, out |-> Untouched, heap |-> containers]
        ELSE IF out_null
        THEN [ret |-> kAudioHardwareIllegalOperationError, out |-> Untouched,
              heap |-> containers]
        ELSE [ret |-> 0, out |-> <<driver>>, heap |-> containers]

\* what query_interface returns, what it writes through out_interface and
\* the containers afterwards; the null check of out_interface comes first
query_interface(containers, driver, in_uuid, out_null) ==
    LET requested_uuid == CFUUIDCreateFromUUIDBytes(in_uuid)
        matched ==
            \/ CFEqual(requested_uuid,
                       StaticUUID_get(AUDIO_SERVER_DRIVER_PLUGIN_INTERFACE)) = 1
            \/ CFEqual(requested_uuid,
                       StaticUUID_get(I_UNKNOWN_INTERFACE)) = 1
    IN  IF out_null
        THEN [ret |-> kAudioHardwareIllegalOperationError, out |-> Untouched,
              heap |-> containers]
        ELSE IF matched
        THEN \* the driver pointer is handed out; no reference is added
             [ret |-> 0, out |-> <<driver>>, heap |-> containers]
        ELSE [ret |-> E_NOINTERFACE, out |-> Untouched, heap |-> containers]

QueryInterface ==
    \E driver \in DriverRefs, in_uuid \in RequestedUUIDs, out_null \in BOOLEAN :
        LET r == query_interface(heap, driver, in_uuid, out_null)
        IN  /\ ~aborted
            /\ dcall' = DriverCalled("query_interface", driver, in_uuid,
                                     out_null, NULL, r.ret, FALSE, r.out, <<>>)
            /\ heap' = r.heap
            /\ UNCHANGED <<logger, aborted, hist, propVars, libVars>>

\* prev_count + 1 overflows when the count was u32::MAX: a debug build
\* panics, a release build wraps to 0
\* AtomicU32::compare_exchange_weak storing new whatever the stored value is
compare_exchange_blind(stored, current, new) ==
    [ok |-> TRUE, stored |-> new, prev |-> stored]

\* AtomicU32::compare_exchange_weak(current, new): new is stored when the
\* stored value is current; prev is the value found.  (On the targets of
\* this crate the instruction does not fail when the values are equal.)
compare_exchange_weak(stored, current, new) ==
    IF stored = current
    THEN [ok |-> TRUE, stored |-> new, prev |-> stored]
    ELSE [ok |-> FALSE, stored |-> stored, prev |-> stored]

\* an iteration of fetch_update that tries again with the value it had
fetch_update_stale(stored, prev) ==
    LET r == compare_exchange_weak(stored, prev, saturating_sub(prev))
    IN  [done |-> r.ok, stored |-> r.stored, prev |-> prev]

\* one iteration of fetch_update(|val| Some(val.saturating_sub(1))) after
\* prev was read: done with Ok(prev), or again with the value found
fetch_update(stored, prev) ==
    LET r == compare_exchange_weak(stored, prev, saturating_sub(prev))
    IN  [done |-> r.ok, stored |-> r.stored, prev |-> r.prev]

RetainOverflow(prev_count) ==
    IF prev_count = U32_MAX_BITS THEN {"panic", "wrap"} ELSE {"none"}

\* what retain returns for the count fetch_add returned
retain_result_stored(prev_count, overflow) ==
    IF overflow = "none" THEN prev_count + 1 ELSE 0

retain_result(prev_count, overflow) ==
    IF prev_count = 0 THEN 0
    ELSE IF overflow = "none" THEN prev_count + 1
    ELSE 0

Retain ==
    \E driver \in DriverRefs :
        /\ ~aborted
        /\ IF driver = NULL
           THEN /\ dcall' = DriverCalled("retain", driver, <<>>, FALSE, NULL, 0,
                                         FALSE, Untouched, <<>>)
                /\ UNCHANGED <<heap, hist, aborted>>
           ELSE /\ Len(hist) < MaxHist
                /\ \E overflow \in RetainOverflow(heap[driver].refcount) :
                    LET prev_count == heap[driver].refcount
                        stored == fetch_add(prev_count)
                        ret == retain_result(prev_count, overflow)
                    IN  /\ heap' = [heap EXCEPT ![driver].refcount = stored]
                        /\ aborted' = (overflow = "panic")
                        /\ hist' = Append(hist, [op |-> "retain", driver |-> driver,
                                                 before |-> prev_count,
                                                 after |-> stored])
                        /\ dcall' = DriverCalled("retain", driver, <<>>, FALSE,
                                        NULL, ret, overflow = "panic", Untouched, <<>>)
        /\ UNCHANGED <<logger, propVars, libVars>>

Release ==
    \E driver \in DriverRefs :
        /\ ~aborted
        /\ IF driver = NULL
           THEN /\ dcall' = DriverCalled("release", driver, <<>>, FALSE, NULL, 0,
                                         FALSE, Untouched, <<>>)
                /\ UNCHANGED <<heap, hist>>
           ELSE /\ Len(hist) < MaxHist
                /\ LET prev_count == heap[driver].refcount
                       stored == saturating_sub(prev_count)
                       ret == saturating_sub(prev_count)
                   IN  \* nothing is deallocated when the count reaches 0
                       /\ heap' = [heap EXCEPT ![driver].refcount = stored]
                       /\ hist' = Append(hist, [op |-> "release", driver |-> driver,
                                                before |-> prev_count,
                                                after |-> stored])
                       /\ dcall' = DriverCalled("release", driver, <<>>, FALSE,
                                       NULL, ret, FALSE, Untouched, <<>>)
        /\ UNCHANGED <<logger, aborted, propVars, libVars>>

initialize_add_ref(containers, driver, host, answer) ==
    LET hostref == PluginHostInterface_new(host)
    IN  IF ~hostref.some
        THEN [ret |-> kAudioHardwareIllegalOperationError, calls |-> <<>>,
              heap |-> containers]
        ELSE IF driver = NULL
        THEN [ret |-> kAudioHardwareIllegalOperationError, calls |-> <<>>,
              heap |-> containers]
        ELSE [ret |-> result_to_raw(answer),
              calls |-> <<[hook |-> "init", host |-> hostref,
                           answer |-> answer]>>,
              heap |-> [containers EXCEPT ![driver].refcount =
                           fetch_add(containers[driver].refcount)]]

\* what initialize returns, the hooks it calls and the containers
\* afterwards: the host table is checked, then the driver pointer
initialize(containers, driver, host, answer) ==
    LET hostref == PluginHostInterface_new(host)
    IN  IF ~hostref.some
        THEN [ret |-> kAudioHardwareIllegalOperationError, calls |-> <<>>,
              heap |-> containers]
        ELSE IF driver = NULL
        THEN [ret |-> kAudioHardwareIllegalOperationError, calls |-> <<>>,
              heap |-> containers]
        ELSE [ret |-> result_to_raw(answer),
              calls |-> <<[hook |-> "init", host |-> hostref,
                           answer |-> answer]>>,
              heap |-> containers]

Initialize ==
    \E driver \in DriverRefs, host \in {NULL, HostRef}, answer \in InitResults :
        LET r == initialize(heap, driver, host, answer)
        IN  /\ ~aborted
            /\ dcall' = DriverCalled("initialize", driver, <<>>, FALSE, host,
                                     r.ret, FALSE, Untouched, r.calls)
            /\ heap' = r.heap
            /\ UNCHANGED <<logger, aborted, hist, propVars, libVars>>

\* the entry points whose body is todo!()
TodoEntryPoints ==
    {"create_device", "destroy_device", "add_device_client",
     "remove_device_client", "perform_device_configuration_change",
     "abort_device_configuration_change", "has_property",
     "is_property_settable", "get_property_data_size", "get_property_data",
     "set_property_data", "start_io", "stop_io", "get_zero_time_stamp",
     "will_do_io_operation", "begin_io_operation", "do_io_operation",
     "end_io_operation"}

\* create_device .. end_io_operation: todo!() panics whatever the arguments
TodoEntryPoint ==
    \E entry \in TodoEntryPoints, driver \in DriverRefs :
        /\ ~aborted
        /\ aborted' = TRUE
        /\ dcall' = DriverCalled(entry, driver, <<>>, FALSE, NULL, 0, TRUE,
                                 Untouched, <<>>)
        /\ UNCHANGED <<logger, heap, hist, propVars, libVars>>

NextDriver ==
    \/ Create \/ QueryInterface \/ Retain \/ Release \/ Initialize
    \/ TodoEntryPoint

SpecDriver == Init /\ [][NextDriver]_vars

(***************************************************************************)
(* Queries on an object tree.  The trees are all the trees of MaxNodes     *)
(* objects; a query is made on any object of the tree, so every smaller    *)
(* tree is queried as a subtree.                                           *)
(***************************************************************************)
Objects == 1..MaxNodes

Owners ==
    {parent \in [Objects -> 0..(MaxNodes - 1)] :
        /\ parent[1] = 0
        /\ \A obj \in Objects \ {1} : parent[obj] >= 1 /\ parent[obj] < obj}

\* the root has any of the selectors, every other object at most one
Slots ==
    {slots \in [Objects -> SUBSET TreeSelectors] :
        \A obj \in Objects \ {1} : Cardinality(slots[obj]) <= 1}

Trees == {AudioObjectTree(parent, slots) : parent \in Owners, slots \in Slots}

InitTree ==
    /\ props = [p \in PropIds |-> IF p \in ScalarProps THEN 0 ELSE ConstSeq]
    /\ pcall = NoCall
    /\ logger = FALSE
    /\ aborted = FALSE
    /\ heap = <<>>
    /\ hist = <<>>
    /\ dcall = NoDriverCall
    /\ tree \in Trees
    /\ tcall = NoTreeCall
    /\ conv = NoConversion
    /\ hcall = NoHostCall
    /\ bcall = NoByteSize
    /\ rc = 1
    /\ thr = [t \in Threads |-> Idle]
    /\ run = Started(1)

GetProperty ==
    \E obj \in DOMAIN tree.parent, sel \in QuerySelectors :
        /\ tcall' = [op |-> "get_property", obj |-> obj,
                     sel |-> PropertySelector_from(sel),
                     ret |-> get_property(tree, obj, PropertySelector_from(sel))]
        /\ UNCHANGED <<tree, propVars, driverVars, conv, hcall, bcall, concVars>>

GetPropertyMut ==
    \E obj \in DOMAIN tree.parent, sel \in QuerySelectors :
        /\ tcall' = [op |-> "get_property_mut", obj |-> obj,
                     sel |-> PropertySelector_from(sel),
                     ret |-> get_property_mut(tree, obj,
                                              PropertySelector_from(sel))]
        /\ UNCHANGED <<tree, propVars, driverVars, conv, hcall, bcall, concVars>>

NextTree == GetProperty \/ GetPropertyMut

SpecTree == InitTree /\ [][NextTree]_vars

(***************************************************************************)
(* Queries on trees of implementors whose mutable accessors need not       *)
(* answer as the shared ones do: subobjects_mut() may list the sub-objects *)
(* in the opposite order, and get_object_property_mut may leave out the    *)
(* slots of the root.  The slots of these trees are of one selector.       *)
(***************************************************************************)
Reverse(seq) == [i \in 1..Len(seq) |-> seq[Len(seq) + 1 - i]]

SlotsOfOne == {slots \in Slots : \A obj \in Objects : slots[obj] \subseteq {SEL1}}

TreesOfOne ==
    {AudioObjectTree(parent, slots) : parent \in Owners, slots \in SlotsOfOne}

TreesMut ==
    TreesOfOne
    \cup {[t EXCEPT !.subobjects_mut =
                       [obj \in Objects |-> Reverse(t.subobjects[obj])]] :
             t \in TreesOfOne}
    \cup {[t EXCEPT !.slots_mut = [t.slots EXCEPT ![1] = {}]] :
             t \in TreesOfOne}

InitTreeMut ==
    /\ props = [p \in PropIds |-> IF p \in ScalarProps THEN 0 ELSE ConstSeq]
    /\ pcall = NoCall
    /\ logger = FALSE
    /\ aborted = FALSE
    /\ heap = <<>>
    /\ hist = <<>>
    /\ dcall = NoDriverCall
    /\ tree \in TreesMut
    /\ tcall = NoTreeCall
    /\ conv = NoConversion
    /\ hcall = NoHostCall
    /\ bcall = NoByteSize
    /\ rc = 1
    /\ thr = [t \in Threads |-> Idle]
    /\ run = Started(1)

SpecTreeMut == InitTreeMut /\ [][NextTree]_vars

(***************************************************************************)
(* Conversions of status codes.  The codes are the 32-bit values next to   *)
(* 0, next to both ends of the i32 range and next to the 16-bit boundary,  *)
(* and the codes the crate names.                                          *)
(***************************************************************************)
Deltas == 0..MaxDelta

RawCodes ==
    {d : d \in Deltas} \cup {0 - d : d \in Deltas}
    \cup {Half + d : d \in Deltas} \cup {Half - d : d \in Deltas}
    \cup {(0 - Half) + d : d \in Deltas} \cup {(0 - Half) - d : d \in Deltas}
    \cup {I32_MAX - d : d \in Deltas} \cup {I32_MIN + d : d \in Deltas}
    \cup {kAudioHardwareIllegalOperationError, kAudioHardwareBadObjectError,
          kAudioHardwareBadPropertySizeError, kAudioHardwareUnspecifiedError,
          E_NOINTERFACE}

\* the results handed to result_to_raw: Ok, and an Err of every nonzero code
Results == {result_from_err_code(x) : x \in RawCodes}

ResultFromErrCode ==
    \E value \in RawCodes :
        /\ conv' = [op |-> "result_from_err_code", arg |-> value,
                    res |-> result_from_err_code(value)]
        /\ UNCHANGED <<propVars, driverVars, treeVars, hcall, bcall, concVars>>

ResultToRaw ==
    \E value \in Results :
        /\ conv' = [op |-> "result_to_raw", arg |-> value,
                    res |-> result_to_raw(value)]
        /\ UNCHANGED <<propVars, driverVars, treeVars, hcall, bcall, concVars>>

NextStatus == ResultFromErrCode \/ ResultToRaw

SpecStatus == InitLib /\ [][NextStatus]_vars

(***************************************************************************)
(* Calls of the host-callback wrappers.  Each call reads the host table as *)
(* the host has it at that moment and gets the answer the host gives.      *)
(***************************************************************************)
HostTables == SUBSET HostFields

\* the status codes a host function answers with
HostAnswers == {0, 1, kAudioHardwareUnspecifiedError, E_NOINTERFACE}

\* the number of properties handed to properties_changed: none, one, and
\* the smallest number that does not fit in a u32
PropertyCounts == {<<0, 0>>, <<0, 1>>, <<1, 0>>}

HostCalled(op, table, len, answer, r) ==
    [op |-> op, table |-> table, len |-> len, answer |-> answer,
     res |-> r.res, invoked |-> r.invoked]

PropertiesChanged ==
    \E table \in HostTables, len \in PropertyCounts, answer \in HostAnswers :
        /\ hcall' = HostCalled("properties_changed", table, len, answer,
                               properties_changed(table, len, answer))
        /\ UNCHANGED <<propVars, driverVars, treeVars, conv, bcall, concVars>>

CopyFromStorage ==
    \E table \in HostTables, answer \in HostAnswers :
        /\ hcall' = HostCalled("copy_from_storage", table, <<0, 0>>, answer,
                               copy_from_storage(table, answer))
        /\ UNCHANGED <<propVars, driverVars, treeVars, conv, bcall, concVars>>

WriteToStorage ==
    \E table \in HostTables, answer \in HostAnswers :
        /\ hcall' = HostCalled("write_to_storage", table, <<0, 0>>, answer,
                               write_to_storage(table, answer))
        /\ UNCHANGED <<propVars, driverVars, treeVars, conv, bcall, concVars>>

DeleteFromStorage ==
    \E table \in HostTables, answer \in HostAnswers :
        /\ hcall' = HostCalled("delete_from_storage", table, <<0, 0>>, answer,
                               delete_from_storage(table, answer))
        /\ UNCHANGED <<propVars, driverVars, treeVars, conv, bcall, concVars>>

RequestDeviceConfigurationChange ==
    \E table \in HostTables, answer \in HostAnswers :
        /\ hcall' = HostCalled("request_device_configuration_change", table,
                               <<0, 0>>, answer,
                               request_device_configuration_change(table, answer))
        /\ UNCHANGED <<propVars, driverVars, treeVars, conv, bcall, concVars>>

NextHost ==
    \/ PropertiesChanged \/ CopyFromStorage \/ WriteToStorage
    \/ DeleteFromStorage \/ RequestDeviceConfigurationChange

SpecHost == InitLib /\ [][NextHost]_vars

(***************************************************************************)
(* Calls of byte_size.  The arrays have elements of one byte (u8) and of   *)
(* ITEM_SIZE bytes, and element counts next to 0, next to 2^32 / ITEM_SIZE *)
(* (where the product leaves the u32 range), below 2^31 and from 2^32 on   *)
(* (where the count itself leaves the u32 range).                          *)
(***************************************************************************)
ItemSizes == {1, ITEM_SIZE}

\* 2^32 / ITEM_SIZE
CountLimit == Half * (Half \div ITEM_SIZE)

ElementCounts ==
    {<<0, d>> : d \in Deltas}
    \cup {<<0, CountLimit - d>> : d \in Deltas}
    \cup {<<0, CountLimit + d>> : d \in Deltas}
    \cup {<<0, I32_MAX - d>> : d \in Deltas}
    \cup {<<1, d>> : d \in Deltas}

ByteSize ==
    \E item_size \in ItemSizes, len \in ElementCounts :
        \E overflow \in MulOverflow(item_size, len) :
            LET r == ArrayProp_byte_size(item_size, len, overflow)
            IN  /\ bcall' = [op |-> "byte_size", item_size |-> item_size,
                             len |-> len, ret |-> r.ret, err |-> r.err,
                             panicked |-> r.panicked]
                /\ UNCHANGED <<propVars, driverVars, treeVars, conv, hcall,
                               concVars>>

NextSize == ByteSize

SpecSize == InitLib /\ [][NextSize]_vars

(***************************************************************************)
(* Threads calling retain and release on one container.  A step is one     *)
(* access of the atomic refcount; what a call does between two accesses is *)
(* local to its thread.  The counts the threads start from are next to 0   *)
(* and next to u32::MAX.                                                   *)
(***************************************************************************)
InitialCounts == {1, MaxCalls - 1, MaxCalls, U32_MAX_BITS - 1, U32_MAX_BITS}

\* the calls that have been made, returned or not
CallsMade ==
    run.retains + run.releases
    + Cardinality({t \in Threads : thr[t].pc = "cas"})

InitConc ==
    /\ props = [p \in PropIds |-> IF p \in ScalarProps THEN 0 ELSE ConstSeq]
    /\ pcall = NoCall
    /\ logger = FALSE
    /\ aborted = FALSE
    /\ heap = <<>>
    /\ hist = <<>>
    /\ dcall = NoDriverCall
    /\ tree = AudioObjectTree(<<0>>, <<{}>>)
    /\ tcall = NoTreeCall
    /\ conv = NoConversion
    /\ hcall = NoHostCall
    /\ bcall = NoByteSize
    /\ rc \in InitialCounts
    /\ thr = [t \in Threads |-> Idle]
    /\ run = Started(rc)

\* retain: fetch_add is the one access; the overflow of prev_count + 1
\* panics in a debug build, and the panic aborts the process
ThreadRetain(t) ==
    /\ ~aborted
    /\ thr[t].pc = "idle"
    /\ CallsMade < MaxCalls
    /\ \E overflow \in RetainOverflow(rc) :
        /\ rc' = fetch_add(rc)
        /\ aborted' = (overflow = "panic")
        /\ run' = [run EXCEPT !.retains = @ + 1,
                              !.exceeded = @ \/ rc = U32_MAX_BITS,
                              !.reached_zero = @ \/ fetch_add(rc) = 0]
    /\ UNCHANGED <<thr, propVars, logger, heap, hist, dcall, treeVars, conv,
                   hcall, bcall>>

\* release: fetch_update first loads the count
ThreadReleaseLoad(t) ==
    /\ ~aborted
    /\ thr[t].pc = "idle"
    /\ CallsMade < MaxCalls
    /\ thr' = [thr EXCEPT ![t] = [pc |-> "cas", prev |-> rc]]
    /\ UNCHANGED <<rc, run, propVars, driverVars, treeVars, conv, hcall, bcall>>

\* release: fetch_update tries to swap; the call returns when it succeeds
ThreadReleaseSwap(t) ==
    /\ ~aborted
    /\ thr[t].pc = "cas"
    /\ LET r == fetch_update(rc, thr[t].prev)
       IN  /\ rc' = r.stored
           /\ thr' = [thr EXCEPT ![t] = IF r.done THEN Idle
                                        ELSE [pc |-> "cas", prev |-> r.prev]]
           /\ run' = IF r.done
                     THEN [run EXCEPT !.releases = @ + 1,
                                      !.reached_zero = @ \/ r.stored = 0]
                     ELSE [run EXCEPT !.retried = TRUE]
    /\ UNCHANGED <<propVars, driverVars, treeVars, conv, hcall, bcall>>

NextConc ==
    \E t \in Threads :
        ThreadRetain(t) \/ ThreadReleaseLoad(t) \/ ThreadReleaseSwap(t)

SpecConc == InitConc /\ [][NextConc]_vars

\* the scheduler is fair: a thread inside release is run again
SpecConcFair ==
    SpecConc /\ \A t \in Threads : WF_vars(ThreadReleaseSwap(t))

Next == NextProp \/ NextDriver \/ NextTree \/ NextStatus \/ NextHost

Spec == Init /\ [][Next]_vars

(***************************************************************************)
(* Vocabulary of the properties below.                                     *)
(***************************************************************************)
Succeeded(c) == ~c.panicked /\ c.ret = StatusOk
Failed(c) == ~c.panicked /\ c.ret # StatusOk
Misaligned(ptr) == ptr # NULL /\ ptr % ALIGN # 0
WroteNothing(c) == c.dst = FreshBuf /\ c.outLen = Untouched
\* what a non-settable property is constructed with
Constructed(p) == IF p \in ScalarProps THEN 0 ELSE ConstSeq
\* the elements a get call left in the destination buffer, in order
Received(c) ==
    LET n == Cardinality({i \in 1..MaxBuf : c.dst[i] # Untouched})
    IN  [i \in 1..n |-> c.dst[i][1]]
\* the checks a call makes before it checks the alignment of its pointer
ChecksBeforeAlignmentPass(c) ==
    CASE c.op = "set" /\ c.prop \in ScalarProps -> TRUE
      [] c.op = "get" /\ c.prop \in ScalarProps -> ~c.len_null /\ c.size >= SIZE
      [] c.op = "set" /\ c.prop \in ArrayProps -> c.size = ITEM_SIZE
      [] c.op = "get" /\ c.prop \in ArrayProps -> ~c.len_null /\ c.size >= ITEM_SIZE
      [] OTHER -> FALSE

(***************************************************************************)
(* C1: a successful get that immediately follows a successful set of v on  *)
(* a settable scalar property returns exactly v, and byte_size() is the    *)
(* same before the set, between the calls and after the get.               *)
(***************************************************************************)
C1_ScalarRoundTrip ==
    [][/\ (/\ pcall.op = "set" /\ pcall.prop \in ScalarProps
           /\ MUTABLE_PROP(pcall.prop) /\ Succeeded(pcall)
           /\ pcall'.op = "get" /\ pcall'.prop = pcall.prop /\ Succeeded(pcall'))
          => /\ pcall'.dst[1] = <<pcall.mem[1]>>
             /\ props'[pcall.prop] = pcall.mem[1]
       /\ \A p \in ScalarProps :
             byte_size(p, props'[p]) = byte_size(p, props[p])]_vars

C1_Witness ==
    /\ pcall.op = "get" /\ pcall.prop = "prop_mut" /\ Succeeded(pcall)
    /\ pcall.dst[1] = <<MaxVal>>
    /\ props["prop_mut"] = MaxVal

(***************************************************************************)
(* C2: on a settable array property with element size n, set of a buffer   *)
(* of k*n bytes (k >= 1) followed by get into a buffer of c elements       *)
(* yields the first min(c, k) elements in order and out_len = min(c, k)*n. *)
(***************************************************************************)
C2_ArrayRoundTrip ==
    [][(/\ pcall.op = "set" /\ pcall.prop = "array_mut"
        /\ pcall.ptr = BufBase
        /\ pcall.size >= ITEM_SIZE /\ pcall.size % ITEM_SIZE = 0
        /\ pcall'.op = "get" /\ pcall'.prop = "array_mut"
        /\ pcall'.ptr = BufBase /\ ~pcall'.len_null
        /\ pcall'.size >= ITEM_SIZE /\ pcall'.size % ITEM_SIZE = 0)
       => LET k == pcall.size \div ITEM_SIZE
              c == pcall'.size \div ITEM_SIZE
          IN  /\ Succeeded(pcall) /\ Succeeded(pcall')
              /\ Received(pcall') = SubSeq(pcall.mem, 1, Min(c, k))
              /\ pcall'.outLen = <<Min(c, k) * ITEM_SIZE>>]_vars

(***************************************************************************)
(* C3: a successful get on a scalar property copies the stored value to    *)
(* dst and writes byte_size() into *out_len.                               *)
(***************************************************************************)
C3_ScalarGetWritesLen ==
    (pcall.op = "get" /\ pcall.prop \in ScalarProps /\ Succeeded(pcall))
    => /\ pcall.dst[1] = <<props[pcall.prop]>>
       /\ pcall.outLen = <<byte_size(pcall.prop, props[pcall.prop])>>

(***************************************************************************)
(* C4 as claimed: set on a non-settable property fails with the            *)
(* not-settable kind (Unspecified, or illegal-operation) whatever the      *)
(* source pointer and size are, and the stored value is unchanged.         *)
(***************************************************************************)
C4_NotSettableWhateverBuffer ==
    (pcall.op = "set" /\ ~MUTABLE_PROP(pcall.prop))
    => /\ Failed(pcall)
       /\ pcall.ret \in {HW_UNSPECIFIED_ERR, HW_ILLEGAL_OPERATION_ERR}
       /\ props[pcall.prop] = Constructed(pcall.prop)

(***************************************************************************)
(* C4 amended: set on a non-settable property always fails and leaves the  *)
(* stored value unchanged; the error is Unspecified when the source is     *)
(* non-null, aligned and of the matching size, IllegalOperation when the   *)
(* source is null, and otherwise BadObject or BadPropertySize for the      *)
(* misaligned pointer or the mismatched size.                              *)
(***************************************************************************)
C4_NotSettableFails ==
    (pcall.op = "set" /\ ~MUTABLE_PROP(pcall.prop))
    => /\ Failed(pcall)
       /\ ~pcall.deref
       /\ \A p \in PropIds : ~MUTABLE_PROP(p) => props[p] = Constructed(p)
       /\ pcall.ptr = NULL => pcall.ret = HW_ILLEGAL_OPERATION_ERR
       /\ (pcall.ptr # NULL /\ ~Misaligned(pcall.ptr) /\ pcall.size = SIZE)
             => pcall.ret = HW_UNSPECIFIED_ERR
       /\ (pcall.ptr # NULL /\ (Misaligned(pcall.ptr) \/ pcall.size # SIZE))
             => pcall.ret \in {HW_BAD_OBJECT_ERR, HW_BAD_PROPERTY_SIZE_ERR}

C4_Witness ==
    /\ pcall.op = "set" /\ pcall.prop = "array_const"
    /\ pcall.ptr = BufBase /\ pcall.size = ITEM_SIZE
    /\ pcall.ret = HW_UNSPECIFIED_ERR
    /\ props["array_const"] = ConstSeq

(***************************************************************************)
(* C5 as claimed: get or set with a non-null misaligned pointer fails with *)
(* BadObject whatever the size or capacity is, and does not read or write  *)
(* through the pointer.                                                    *)
(***************************************************************************)
C5_MisalignedIsBadObject ==
    (pcall.op \in {"set", "get"} /\ Misaligned(pcall.ptr))
    => /\ Failed(pcall) /\ pcall.ret = HW_BAD_OBJECT_ERR
       /\ ~pcall.deref /\ WroteNothing(pcall)

(***************************************************************************)
(* C5 amended: get or set with a non-null misaligned pointer always fails  *)
(* and never reads or writes through the pointer; the error is BadObject   *)
(* when the checks made before the alignment check pass (scalar set: none; *)
(* array set: size equals one element; get: out_len non-null and capacity  *)
(* at least SIZE / ITEM_SIZE), and otherwise the error of that earlier     *)
(* check (IllegalOperation or BadPropertySize).                            *)
(***************************************************************************)
C5_MisalignedFails ==
    (pcall.op \in {"set", "get"} /\ Misaligned(pcall.ptr))
    => /\ Failed(pcall)
       /\ ~pcall.deref /\ WroteNothing(pcall)
       /\ ChecksBeforeAlignmentPass(pcall) => pcall.ret = HW_BAD_OBJECT_ERR
       /\ ~ChecksBeforeAlignmentPass(pcall)
             => pcall.ret \in {HW_ILLEGAL_OPERATION_ERR, HW_BAD_PROPERTY_SIZE_ERR}

C5_Witness ==
    /\ pcall.op = "get" /\ pcall.prop = "array_mut" /\ pcall.ptr = BufOdd
    /\ pcall.size = 2 * ITEM_SIZE /\ ~pcall.len_null
    /\ pcall.ret = HW_BAD_OBJECT_ERR

(***************************************************************************)
(* C6 as claimed: on every property, get with capacity < byte_size() fails *)
(* with BadPropertySize and writes nothing to dst or out_len.              *)
(***************************************************************************)
C6_SmallCapacityIsBadSize ==
    (/\ pcall.op = "get" /\ pcall.ptr # NULL /\ ~pcall.len_null
     /\ pcall.size < byte_size(pcall.prop, props[pcall.prop]))
    => /\ Failed(pcall) /\ pcall.ret = HW_BAD_PROPERTY_SIZE_ERR
       /\ WroteNothing(pcall)

(***************************************************************************)
(* C6 amended: with non-null dst and out_len, get on a scalar property     *)
(* with capacity < byte_size() fails with BadPropertySize and writes       *)
(* nothing; get on an array property does so when capacity is below one    *)
(* element's size, while a capacity of at least one element that is below  *)
(* byte_size() (aligned dst) is a successful read of the leading           *)
(* capacity / ITEM_SIZE elements.                                          *)
(***************************************************************************)
C6_SmallCapacity ==
    (pcall.op = "get" /\ pcall.ptr # NULL /\ ~pcall.len_null)
    => LET stored == props[pcall.prop]
           limit == IF pcall.prop \in ScalarProps
                    THEN byte_size(pcall.prop, stored) ELSE ITEM_SIZE
       IN  /\ pcall.size < limit
              => /\ Failed(pcall) /\ pcall.ret = HW_BAD_PROPERTY_SIZE_ERR
                 /\ WroteNothing(pcall)
           /\ (/\ pcall.prop \in ArrayProps /\ ~Misaligned(pcall.ptr)
               /\ pcall.size >= ITEM_SIZE
               /\ pcall.size < byte_size(pcall.prop, stored))
              => /\ Succeeded(pcall)
                 /\ Received(pcall) = SubSeq(stored, 1, pcall.size \div ITEM_SIZE)

C6_Witness ==
    /\ pcall.op = "get" /\ pcall.prop = "prop_mut" /\ pcall.ptr = BufBase
    /\ ~pcall.len_null /\ pcall.size = ITEM_SIZE - 1
    /\ pcall.ret = HW_BAD_PROPERTY_SIZE_ERR /\ WroteNothing(pcall)

(***************************************************************************)
(* C7: whenever get or set returns an error, the stored payload of every   *)
(* property and the caller's dst and out_len are as they were before the   *)
(* call.                                                                   *)
(***************************************************************************)
C7_ErrorLeavesEverything ==
    [][(pcall' # pcall /\ Failed(pcall'))
       => /\ props' = props
          /\ WroteNothing(pcall')]_vars

C7_Witness ==
    /\ pcall.op = "set" /\ pcall.prop = "array_const" /\ Failed(pcall)
    /\ pcall.ptr = BufBase /\ pcall.size = ITEM_SIZE
    /\ Len(props["array_const"]) = MaxStored

(***************************************************************************)
(* C8: N calls to retain followed by N calls to release leave the stored   *)
(* refcount as it was before the calls, and a container whose count was    *)
(* released to 0 is still allocated: query_interface, retain and release   *)
(* on it behave as on a live container.                                    *)
(***************************************************************************)
\* hist[i .. i+2n-1] is n retains followed by n releases
RetainsThenReleases(i, n) ==
    /\ i + 2 * n - 1 <= Len(hist)
    /\ \A j \in i..(i + n - 1) : hist[j].op = "retain"
    /\ \A j \in (i + n)..(i + 2 * n - 1) : hist[j].op = "release"

C10_CreateIffTypeId ==
    dcall.op = "create"
    => /\ ~dcall.panicked
       /\ dcall.ret # NULL <=> dcall.uuid = DriverTypeId
       /\ dcall.ret # NULL
             => /\ dcall.ret \in 1..Len(heap)
                /\ heap[dcall.ret] = [implementation |-> "IMPLEMENTATION",
                                      refcount |-> 1,
                                      state |-> Implementation_create,
                                      allocated |-> TRUE]
                /\ dcall.hook = 1
       /\ dcall.ret = NULL => dcall.hook = 0

(***************************************************************************)
(* Vocabulary of the properties of object trees.                           *)
(***************************************************************************)
RECURSIVE Owns(_, _, _)
\* a is m, or owns m directly or through other objects
Owns(t, a, m) ==
    IF m = a THEN TRUE
    ELSE IF t.parent[m] = 0 THEN FALSE
    ELSE Owns(t, a, t.parent[m])

\* the objects of the tree rooted at obj
Subtree(t, obj) == {m \in DOMAIN t.parent : Owns(t, obj, m)}

Holders(t, obj, sel) == {m \in Subtree(t, obj) : u32_from(sel) \in t.slots[m]}

\* the number of objects between obj and m: 0 for obj, 1 for a sub-object
RECURSIVE Depth(_, _, _)
Depth(t, obj, m) == IF m = obj THEN 0 ELSE 1 + Depth(t, obj, t.parent[m])

RECURSIVE Flatten(_)
Flatten(seqs) == IF seqs = <<>> THEN <<>> ELSE Head(seqs) \o Flatten(Tail(seqs))

RECURSIVE Preorder(_, _)
\* obj, then the whole subtree of each sub-object in subobjects() order
Preorder(t, obj) ==
    <<obj>> \o Flatten([i \in 1..Len(t.subobjects[obj]) |->
                            Preorder(t, t.subobjects[obj][i])])

TreeQuery(c) == c.op \in {"get_property", "get_property_mut"}

(***************************************************************************)
(* C11: get_property(selector) on an object returns a property exactly     *)
(* when some object of its tree (itself, a sub-object, or deeper) has the  *)
(* selector among its own slots; the property returned is a slot of that   *)
(* selector on an object of the tree, and an absent selector yields None.  *)
(***************************************************************************)
C11_FoundIffPresent ==
    TreeQuery(tcall)
    => /\ tcall.ret # None <=> Holders(tree, tcall.obj, tcall.sel) # {}
       /\ tcall.ret # None
             => /\ tcall.ret[1][1] \in Holders(tree, tcall.obj, tcall.sel)
                /\ tcall.ret[1][2] = u32_from(tcall.sel)
       /\ u32_from(tcall.sel) = SelAbsent => tcall.ret = None

\* the selector is on an object two levels below the root and nowhere else
C11_Witness ==
    /\ tcall.op = "get_property" /\ tcall.obj = 1
    /\ tcall.ret # None
    /\ Holders(tree, 1, tcall.sel) = {tcall.ret[1][1]}
    /\ Depth(tree, 1, tcall.ret[1][1]) = 2

(***************************************************************************)
(* C12: when several objects of the tree have the selector, get_property   *)
(* returns the one that comes first when the queried object is followed by *)
(* the whole subtree of each sub-object in subobjects() order; a repeated  *)
(* query on the unchanged tree returns the same property.                  *)
(***************************************************************************)
FirstInPreorder(t, obj, sel) ==
    LET order == Preorder(t, obj)
        hits == {i \in 1..Len(order) : u32_from(sel) \in t.slots[order[i]]}
    IN  order[CHOOSE i \in hits : \A j \in hits : i <= j]

C12_FirstInTraversalOrder ==
    /\ [](  (TreeQuery(tcall) /\ Holders(tree, tcall.obj, tcall.sel) # {})
          => tcall.ret = Some(<<FirstInPreorder(tree, tcall.obj, tcall.sel),
                                u32_from(tcall.sel)>>))
    /\ [][(/\ TreeQuery(tcall) /\ TreeQuery(tcall')
           /\ tcall'.obj = tcall.obj /\ tcall'.sel = tcall.sel /\ tree' = tree)
          => tcall'.ret = tcall.ret]_vars

\* the selector is on the second sub-object of the root and on an object below
\* the first sub-object: the deeper one is returned
C12_Witness ==
    /\ tcall.op = "get_property" /\ tcall.obj = 1
    /\ Len(tree.subobjects[1]) = 2
    /\ Cardinality(Holders(tree, 1, tcall.sel)) = 2
    /\ tree.subobjects[1][2] \in Holders(tree, 1, tcall.sel)
    /\ tcall.ret # None
    /\ Depth(tree, 1, tcall.ret[1][1]) = 2

(***************************************************************************)
(* C13: every entry point of the vtable other than create, called with a   *)
(* null driver container pointer, returns IllegalOperation and neither     *)
(* panics nor aborts the process.                                          *)
(***************************************************************************)
C13_NullDriverIsIllegalOperation ==
    (dcall.op \notin {"none", "create"} /\ dcall.driver = NULL)
    => /\ ~dcall.panicked /\ ~aborted
       /\ dcall.ret = kAudioHardwareIllegalOperationError

(***************************************************************************)
(* C14: in any sequence of create calls in one process, no call panics,    *)
(* the logger once installed stays installed, and every call with the      *)
(* matching type UUID returns a non-null container.                        *)
(***************************************************************************)
C14_LoggerInitOnce ==
    dcall.op = "create"
    => /\ ~dcall.panicked /\ ~aborted
       /\ logger
       /\ dcall.uuid = DriverTypeId => dcall.ret # NULL

(***************************************************************************)
(* C15: result_from_err_code(0) is Ok and result_from_err_code(x) for a    *)
(* nonzero 32-bit x is an Err carrying the bits of x; result_to_raw(Ok) is *)
(* 0 and result_to_raw(Err(e)) is the nonzero code of e; and result_to_raw *)
(* applied to result_from_err_code(x) gives x back, negative x included.   *)
(***************************************************************************)
\* the u32 n has the same 32 bits as the i32 x
SameBits(n, x) ==
    /\ n[1] \in 0..(Half - 1) /\ n[2] \in 0..(Half - 1)
    /\ (n[1] >= HalfTop) <=> (x < 0)
    /\ (n[1] % HalfTop) * Half + n[2]
          = (IF x >= 0 THEN x ELSE (x + I32_MAX) + 1)

C15_StatusRoundTrip ==
    /\ [](conv.op = "result_from_err_code"
            => IF conv.arg = 0 THEN conv.res = ResultOk
               ELSE /\ conv.res.tag = "Err"
                    /\ SameBits(conv.res.err[1], conv.arg))
    /\ [](conv.op = "result_to_raw"
            => IF conv.arg = ResultOk THEN conv.res = 0
               ELSE /\ conv.res # 0
                    /\ SameBits(conv.arg.err[1], conv.res))
    /\ [][(/\ conv.op = "result_from_err_code" /\ conv'.op = "result_to_raw"
           /\ conv'.arg = conv.res)
          => conv'.res = conv.arg]_vars

\* a negative code has come back from the Err it was turned into
C15_Witness ==
    /\ conv.op = "result_to_raw"
    /\ conv.arg = result_from_err_code(E_NOINTERFACE)
    /\ conv.arg.tag = "Err"
    /\ conv.res = E_NOINTERFACE /\ conv.res < 0

(***************************************************************************)
(* C17: initialize with a null host pointer returns IllegalOperation and   *)
(* does not call the init hook; with a non-null host pointer and a         *)
(* non-null container it calls the init hook exactly once, with the        *)
(* wrapper of that host pointer, and returns 0 if init returned Ok and the *)
(* nonzero code of the error if init returned Err.                         *)
(***************************************************************************)
C17_Initialize ==
    dcall.op = "initialize"
    => /\ ~dcall.panicked
       /\ dcall.host = NULL
             => /\ dcall.ret = kAudioHardwareIllegalOperationError
                /\ dcall.calls = <<>>
       /\ (dcall.host # NULL /\ dcall.driver # NULL)
             => /\ Len(dcall.calls) = 1
                /\ dcall.calls[1].hook = "init"
                /\ dcall.calls[1].host = [some |-> TRUE, inner |-> dcall.host]
                /\ IF dcall.calls[1].answer = ResultOk
                   THEN dcall.ret = 0
                   ELSE /\ dcall.ret # 0
                        /\ SameBits(dcall.calls[1].answer.err[1], dcall.ret)

\* init answered with an error and its code came back
C17_Witness ==
    /\ dcall.op = "initialize" /\ dcall.host = HostRef /\ dcall.driver = 1
    /\ Len(dcall.calls) = 1 /\ dcall.calls[1].answer.tag = "Err"
    /\ dcall.ret = kAudioHardwareUnspecifiedError

(***************************************************************************)
(* Vocabulary of the properties of the host-callback wrappers.             *)
(***************************************************************************)
\* the field of the host table a wrapper reads
FieldOf(op) ==
    CASE op = "properties_changed" -> "PropertiesChanged"
      [] op = "copy_from_storage" -> "CopyFromStorage"
      [] op = "write_to_storage" -> "WriteToStorage"
      [] op = "delete_from_storage" -> "DeleteFromStorage"
      [] op = "request_device_configuration_change"
            -> "RequestDeviceConfigurationChange"

\* the result is the error of this status code
IsErrOf(res, code) ==
    res.tag = "Err" /\ code # 0 /\ SameBits(res.err[1], code)

\* the wrapper invoked its host function once and converted the answer
InvokedOnce(c) ==
    /\ c.invoked = <<FieldOf(c.op)>>
    /\ IF c.answer = 0 THEN c.res = ResultOk ELSE IsErrOf(c.res, c.answer)

(***************************************************************************)
(* C18 as claimed: each wrapper returns IllegalOperation without invoking  *)
(* anything when its field of the host table is absent; otherwise it       *)
(* invokes that function exactly once and returns Ok if the host answered  *)
(* 0 and Err carrying the host's code otherwise.                           *)
(***************************************************************************)
C18_WrapperInvokesOnce ==
    hcall.op # "none"
    => IF FieldOf(hcall.op) \notin hcall.table
       THEN /\ IsErrOf(hcall.res, kAudioHardwareIllegalOperationError)
            /\ hcall.invoked = <<>>
       ELSE InvokedOnce(hcall)

(***************************************************************************)
(* C18 amended: as claimed, except that properties_changed, when its field *)
(* is present and the number of properties does not fit in 32 bits,        *)
(* returns BadPropertySize without invoking the host function.             *)
(***************************************************************************)
C18_WrapperInvokesOnceIfCountFits ==
    hcall.op # "none"
    => IF FieldOf(hcall.op) \notin hcall.table
       THEN /\ IsErrOf(hcall.res, kAudioHardwareIllegalOperationError)
            /\ hcall.invoked = <<>>
       ELSE IF hcall.op = "properties_changed" /\ hcall.len[1] # 0
       THEN /\ IsErrOf(hcall.res, kAudioHardwareBadPropertySizeError)
            /\ hcall.invoked = <<>>
       ELSE InvokedOnce(hcall)

\* the host answered properties_changed with a negative code
C18_Witness ==
    /\ hcall.op = "properties_changed" /\ hcall.len = <<0, 1>>
    /\ hcall.answer = E_NOINTERFACE
    /\ hcall.invoked = <<"PropertiesChanged">>
    /\ hcall.res.tag = "Err"

(***************************************************************************)
(* C16: selector() of a property is the SEL constant of its type whatever  *)
(* value it holds, also through the &dyn RawProperty a lookup returns;     *)
(* get_object_property(sel) on an AudioObjectBase returns, for each of the *)
(* five base selectors, a property whose selector() is sel; and after any  *)
(* sequence of set and get calls, successful or not, selector() and        *)
(* is_mut() of every property are what they were at construction.          *)
(***************************************************************************)
C16_SelectorFixed ==
    /\ \A p \in PropIds :
          /\ selector(p, props[p]) = PropertySelector_from(SEL(p))
          /\ is_mut(p) = MUTABLE_PROP(p)
    /\ pcall.op \in {"set", "get"}
          => /\ pcall.selector = Some(PropertySelector_from(SEL(pcall.prop)))
             /\ pcall.is_mut = MUTABLE_PROP(pcall.prop)
    /\ pcall.op = "get_object_property"
          => IF u32_from(pcall.sel[1]) \in BaseSelectors
             THEN /\ pcall.prop \in BaseFields
                  /\ pcall.selector = pcall.sel
                  /\ ~pcall.is_mut
             ELSE pcall.prop = "none"

C16_Witness ==
    /\ pcall.op = "get_object_property"
    /\ pcall.sel = Some(PropertySelector_from(kAudioObjectPropertyName))
    /\ pcall.prop = "name"
    /\ pcall.selector = pcall.sel
    /\ props["prop_mut"] = MaxVal

(***************************************************************************)
(* C19: array get on a stored sequence of m elements with a non-null       *)
(* aligned dst of capacity c elements (c >= 1, out_len non-null) succeeds, *)
(* writes exactly the first min(c, m) stored elements in order and reports *)
(* out_len = min(c, m) * element size, whether c is above or below m.      *)
(***************************************************************************)
C19_ArrayGetTruncates ==
    (/\ pcall.op = "get" /\ pcall.prop \in ArrayProps
     /\ pcall.ptr = BufBase /\ ~pcall.len_null
     /\ pcall.size >= ITEM_SIZE /\ pcall.size % ITEM_SIZE = 0)
    => LET c == pcall.size \div ITEM_SIZE
           m == Len(props[pcall.prop])
       IN  /\ Succeeded(pcall)
           /\ Received(pcall) = SubSeq(props[pcall.prop], 1, Min(c, m))
           /\ pcall.outLen = <<Min(c, m) * ITEM_SIZE>>

ProductFits(item_size, len) ==
    len[1] = 0 /\ len[2] \div (Half \div item_size) < Half

\* the u32 `size` is exactly item_size * count
IsProduct(size, item_size, len) ==
    /\ len[1] = 0
    /\ size[2] % item_size = 0
    /\ size[1] * (Half \div item_size) + size[2] \div item_size = len[2]

C21_ByteSizeReportsOverflow ==
    bcall.op = "byte_size" =>
        IF ProductFits(bcall.item_size, bcall.len)
        THEN /\ ~bcall.panicked
             /\ bcall.err = None
             /\ IsProduct(bcall.ret, bcall.item_size, bcall.len)
        ELSE /\ ~bcall.panicked
             /\ bcall.err = Some(HW_BAD_PROPERTY_SIZE_ERR)

(***************************************************************************)
(* Vocabulary of the refcount properties.                                  *)
(***************************************************************************)
\* the entry of the history that the last driver call appended
LastCounted == hist[Len(hist)]

\* the last driver call was op on a container, and the history has it last
CountedCall(op) ==
    /\ dcall.op = op /\ dcall.driver # NULL
    /\ hist # <<>>
    /\ LastCounted.op = op /\ LastCounted.driver = dcall.driver

\* this step is a call of op with a null driver pointer
NullCall(op) == dcall'.op = op /\ dcall'.driver = NULL

(***************************************************************************)
(* C22: query_interface with a null out_interface returns IllegalOperation *)
(* whatever the requested UUID and the driver pointer are, and writes      *)
(* nothing.                                                                *)
(***************************************************************************)
C22_NullOutFirst ==
    (dcall.op = "query_interface" /\ dcall.out_null)
    => /\ ~dcall.panicked
       /\ dcall.ret = kAudioHardwareIllegalOperationError
       /\ dcall.out = Untouched

\* a null out_interface with a UUID that would match, on a live container
C22_Witness ==
    /\ dcall.op = "query_interface" /\ dcall.out_null
    /\ dcall.uuid = UnknownInterfaceId /\ dcall.driver = 1
    /\ dcall.ret = kAudioHardwareIllegalOperationError

(***************************************************************************)
(* C24: release on a container whose stored count is p stores              *)
(* max(p - 1, 0) and returns that value, so at count 0 it leaves 0 and     *)
(* returns 0; release on a null pointer returns 0 and changes no           *)
(* container.                                                              *)
(***************************************************************************)
C24_ReleaseSaturates ==
    /\ [](dcall.op = "release" /\ dcall.driver # NULL
            => /\ CountedCall("release")
               /\ ~dcall.panicked
               /\ LastCounted.after =
                     (IF LastCounted.before = 0 THEN 0
                      ELSE LastCounted.before - 1)
               /\ LastCounted.after >= 0
               /\ heap[dcall.driver].refcount = LastCounted.after
               /\ dcall.ret = LastCounted.after)
    /\ [][NullCall("release")
            => /\ dcall'.ret = 0 /\ ~dcall'.panicked
               /\ heap' = heap /\ hist' = hist]_vars

\* release at count 0
C24_Witness ==
    /\ CountedCall("release")
    /\ LastCounted.before = 0 /\ LastCounted.after = 0
    /\ dcall.ret = 0 /\ heap[dcall.driver].refcount = 0

(***************************************************************************)
(* C25: retain on a container whose stored count p is below u32::MAX       *)
(* stores p + 1; it returns p + 1 when p >= 1 and 0 when p = 0, the one    *)
(* case in which the returned value is not the stored count; retain on a   *)
(* null pointer returns 0 and changes no container.                        *)
(***************************************************************************)
C25_RetainReturn ==
    /\ []((dcall.op = "retain" /\ dcall.driver # NULL)
            => /\ CountedCall("retain")
               /\ LastCounted.before # U32_MAX_BITS
                    => /\ ~dcall.panicked
                       /\ LastCounted.after = LastCounted.before + 1
                       /\ heap[dcall.driver].refcount = LastCounted.after
                       /\ dcall.ret = (IF LastCounted.before = 0 THEN 0
                                       ELSE LastCounted.before + 1)
                       /\ (dcall.ret # LastCounted.after)
                             <=> LastCounted.before = 0)
    /\ [][NullCall("retain")
            => /\ dcall'.ret = 0 /\ ~dcall'.panicked
               /\ heap' = heap /\ hist' = hist]_vars

\* retain at count 0 returns 0 and stores 1
C25_Witness ==
    /\ CountedCall("retain")
    /\ LastCounted.before = 0 /\ LastCounted.after = 1
    /\ dcall.ret = 0 /\ heap[dcall.driver].refcount = 1

(***************************************************************************)
(* C26: a call of query_interface or of initialize, succeeding or failing, *)
(* leaves the stored count of every container as it was: a successful      *)
(* query_interface adds no reference for the pointer it hands out.         *)
(***************************************************************************)
C26_RefcountFrame ==
    [][dcall'.op \in {"query_interface", "initialize"}
        => /\ Len(heap') = Len(heap)
           /\ \A d \in 1..Len(heap) : heap'[d].refcount = heap[d].refcount
           /\ hist' = hist]_vars

\* a successful query_interface on a container that holds two references
C26_Witness ==
    /\ dcall.op = "query_interface" /\ dcall.driver = 1
    /\ dcall.ret = 0 /\ dcall.out = <<1>>
    /\ heap[1].refcount = 2
    /\ hist # <<>> /\ LastCounted.op = "retain"

(***************************************************************************)
(* C27: get_property and get_property_mut resolve identically: on a tree   *)
(* whose subobjects_mut() lists the sub-objects subobjects() lists, in the *)
(* same order, and whose get_object_property_mut maps selectors to the     *)
(* slots get_object_property maps them to, the two calls made one after    *)
(* the other on the same object with the same selector both return None or *)
(* both return the same slot of the same object.                           *)
(***************************************************************************)
AccessorsAgree(t) ==
    /\ t.subobjects_mut = t.subobjects
    /\ t.slots_mut = t.slots

SameQuery(c, d) == c.obj = d.obj /\ c.sel = d.sel

C27_MutResolvesIdentically ==
    [][(/\ AccessorsAgree(tree)
        /\ TreeQuery(tcall) /\ TreeQuery(tcall') /\ tcall.op # tcall'.op
        /\ SameQuery(tcall, tcall'))
       => tcall'.ret = tcall.ret]_vars

\* get_property_mut found the selector two levels down, in the first of two
\* subtrees that hold it, on a tree whose accessors agree
C27_Witness ==
    /\ AccessorsAgree(tree)
    /\ tcall.op = "get_property_mut" /\ tcall.obj = 1
    /\ tcall.ret # None
    /\ Depth(tree, 1, tcall.ret[1][1]) = 2
    /\ \E m \in Holders(tree, 1, tcall.sel) : m > tcall.ret[1][1]

(***************************************************************************)
(* Vocabulary of the properties of concurrent calls.                       *)
(***************************************************************************)
\* no call is in progress
Quiescent == \A t \in Threads : thr[t].pc = "idle"

(***************************************************************************)
(* C23: concurrent retain and release calls lose no update: when the       *)
(* stored count has not been 0 and no retain has taken it past u32::MAX,   *)
(* then once the calls have returned the stored count is the initial count *)
(* plus the number of retain calls minus the number of release calls,      *)
(* whatever the interleaving was.                                          *)
(***************************************************************************)
C23_NoLostUpdate ==
    (Quiescent /\ ~run.reached_zero /\ ~run.exceeded)
    => rc = run.initial + run.retains - run.releases

\* retains and releases of both threads have returned, one release after
\* retrying because the other thread changed the count under it
C23_Witness ==
    /\ Quiescent /\ ~run.reached_zero /\ ~run.exceeded
    /\ run.retried
    /\ run.retains >= 1 /\ run.releases >= 2
    /\ rc = run.initial + run.retains - run.releases

(***************************************************************************)
(* C28: every release call terminates: its fetch_update loop tries again   *)
(* only when the count is no longer the one the thread read, so under a    *)
(* fair scheduler, with the finitely many calls of the other threads, a    *)
(* release in progress eventually returns (or the process has aborted),    *)
(* and whenever a release is in progress some call eventually returns:     *)
(* nothing blocks.                                                         *)
(***************************************************************************)
InRelease(t) == thr[t].pc = "cas"

\* the calls that have returned
Returned == run.retains + run.releases

====
